---- MODULE Spec2Model ----
(***************************************************************************)
(* Model of the go/functions_framework buildpack                           *)
(* (cmd/go/functions_framework/main.go): buildFn and the routines it       *)
(* calls, as a sequential state machine with one action per step.          *)
(*                                                                         *)
(* Strings the code splits, trims, joins or parses are sequences of        *)
(* one-character strings; a file path is a sequence of such components.    *)
(***************************************************************************)
EXTENDS Integers, Sequences, FiniteSets, TLC

\* ------------------------------------------------------------------------
\* Bounds of the inputs
\* ------------------------------------------------------------------------
MaxMajor == 2
MaxMinor == 2
MaxPatch == 10

\* ------------------------------------------------------------------------
\* Constants of main.go
\* ------------------------------------------------------------------------
functionsFrameworkModule == <<"g", "i", "t", "h", "u", "b", ".", "c", "o", "m", "/", "G", "o", "o", "g", "l", "e", "C", "l", "o", "u", "d", "P", "l", "a", "t", "f", "o", "r", "m", "/", "f", "u", "n", "c", "t", "i", "o", "n", "s", "-", "f", "r", "a", "m", "e", "w", "o", "r", "k", "-", "g", "o">>
functionsFrameworkPackage == functionsFrameworkModule \o <<"/", "f", "u", "n", "c", "f", "r", "a", "m", "e", "w", "o", "r", "k">>
functionsFrameworkVersion == <<"v", "1", ".", "1", ".", "0">>
appName == <<"s", "e", "r", "v", "e", "r", "l", "e", "s", "s", "_", "f", "u", "n", "c", "t", "i", "o", "n", "_", "a", "p", "p">>
fnSourceDir == <<"s", "e", "r", "v", "e", "r", "l", "e", "s", "s", "_", "f", "u", "n", "c", "t", "i", "o", "n", "_", "s", "o", "u", "r", "c", "e", "_", "c", "o", "d", "e">>
unknownDependencyMarker == <<"n", "o", "t", " ", "a", " ", "k", "n", "o", "w", "n", " ", "d", "e", "p", "e", "n", "d", "e", "n", "c", "y">>
\* variant: the vendored build asks for the pinned version too
placeholderVersion_Pinned == functionsFrameworkVersion
placeholderVersion == <<"v", "0", ".", "0", ".", "0">>
thresholdVersion == <<"v", "1", ".", "1", ".", "0">>
OwnerWriteBit == 128

\* ------------------------------------------------------------------------
\* strings and strconv, as the code uses them
\* ------------------------------------------------------------------------
Numbers == <<"0", "1", "2", "3", "4", "5", "6", "7", "8", "9">>
IsNumber(c) == \E i \in 1..10 : Numbers[i] = c
NumberValue(c) == (CHOOSE i \in 1..10 : Numbers[i] = c) - 1
IsSpace(c) == c \in {" ", "\n", "\t", "\r"}

RECURSIVE TrimLeftSpace(_)
TrimLeftSpace(s) == IF Len(s) > 0 /\ IsSpace(s[1]) THEN TrimLeftSpace(Tail(s)) ELSE s

RECURSIVE TrimRightSpace(_)
TrimRightSpace(s) ==
  IF Len(s) > 0 /\ IsSpace(s[Len(s)]) THEN TrimRightSpace(SubSeq(s, 1, Len(s) - 1)) ELSE s

\* variant: nothing is trimmed
TrimSpace_None(s) == s
TrimSpace(s) == TrimRightSpace(TrimLeftSpace(s))

HasPrefix(s, p) == Len(s) >= Len(p) /\ SubSeq(s, 1, Len(p)) = p
TrimPrefix(s, p) == IF HasPrefix(s, p) THEN SubSeq(s, Len(p) + 1, Len(s)) ELSE s

\* strings.Contains(s, sub)
Contains(s, sub) ==
  \E i \in 1..(Len(s) - Len(sub) + 1) : SubSeq(s, i, i + Len(sub) - 1) = sub

\* strings.IndexRune: position of the first c in s, 0 when there is none
IndexRune(s, c) ==
  IF \E i \in 1..Len(s) : s[i] = c
  THEN CHOOSE i \in 1..Len(s) : s[i] = c /\ \A j \in 1..(i - 1) : s[j] # c
  ELSE 0

\* strings.SplitN(s, sep, n) for a one-character separator
RECURSIVE SplitN(_, _, _)
SplitN(s, sep, n) ==
  LET i == IndexRune(s, sep) IN
  IF n = 1 \/ i = 0 THEN <<s>>
  ELSE <<SubSeq(s, 1, i - 1)>> \o SplitN(SubSeq(s, i + 1, Len(s)), sep, n - 1)

\* strings.Split(s, sep): no limit on the number of parts
Split(s, sep) == SplitN(s, sep, Len(s) + 2)

RECURSIVE Join(_, _)
Join(parts, sep) ==
  IF Len(parts) = 0 THEN <<>>
  ELSE IF Len(parts) = 1 THEN parts[1]
  ELSE parts[1] \o sep \o Join(Tail(parts), sep)

\* strconv.ParseUint(s, 10, 64) of a non-empty string of digits
RECURSIVE ParseUint(_)
ParseUint(s) ==
  IF Len(s) = 0 THEN 0
  ELSE 10 * ParseUint(SubSeq(s, 1, Len(s) - 1)) + NumberValue(s[Len(s)])

\* ------------------------------------------------------------------------
\* github.com/blang/semver, as createMainGoFile uses it
\* ------------------------------------------------------------------------
ContainsOnlyNumbers(s) == \A i \in 1..Len(s) : IsNumber(s[i])
IsAlphaNum(c) ==
  \/ IsNumber(c)
  \/ c = "-"
  \/ c \in {"a", "b", "c", "d", "e", "f", "g", "h", "i", "j", "k", "l", "m",
            "n", "o", "p", "q", "r", "s", "t", "u", "v", "w", "x", "y", "z"}
ContainsOnlyAlphaNum(s) == \A i \in 1..Len(s) : IsAlphaNum(s[i])
HasLeadingZeroes(s) == Len(s) > 1 /\ s[1] = "0"

\* a numeric component: digits only, not empty, no leading zero
ValidNumeric(s) == Len(s) > 0 /\ ContainsOnlyNumbers(s) /\ ~HasLeadingZeroes(s)

\* semver.NewPRVersion accepts the pre-release identifier
ValidPRVersion(s) ==
  /\ Len(s) > 0
  /\ IF ContainsOnlyNumbers(s) THEN ~HasLeadingZeroes(s) ELSE ContainsOnlyAlphaNum(s)

ValidBuild(s) == Len(s) > 0 /\ ContainsOnlyAlphaNum(s)

NoVersion == [ok |-> FALSE, Major |-> 0, Minor |-> 0, Patch |-> 0, Pre |-> <<>>]

\* semver.Parse: major.minor.patch[-pre][+build]
Parse(s) ==
  LET parts == SplitN(s, ".", 3) IN
  IF Len(s) = 0 \/ Len(parts) # 3 THEN NoVersion
  ELSE
    LET buildIndex == IndexRune(parts[3], "+")
        build == IF buildIndex # 0
                 THEN Split(SubSeq(parts[3], buildIndex + 1, Len(parts[3])), ".")
                 ELSE <<>>
        patchStr1 == IF buildIndex # 0 THEN SubSeq(parts[3], 1, buildIndex - 1) ELSE parts[3]
        preIndex == IndexRune(patchStr1, "-")
        prerelease == IF preIndex # 0
                      THEN Split(SubSeq(patchStr1, preIndex + 1, Len(patchStr1)), ".")
                      ELSE <<>>
        patchStr == IF preIndex # 0 THEN SubSeq(patchStr1, 1, preIndex - 1) ELSE patchStr1
    IN
    IF /\ ValidNumeric(parts[1])
       /\ ValidNumeric(parts[2])
       /\ ValidNumeric(patchStr)
       /\ \A i \in 1..Len(prerelease) : ValidPRVersion(prerelease[i])
       /\ \A i \in 1..Len(build) : ValidBuild(build[i])
    THEN [ok |-> TRUE, Major |-> ParseUint(parts[1]), Minor |-> ParseUint(parts[2]),
          Patch |-> ParseUint(patchStr), Pre |-> prerelease]
    ELSE NoVersion

\* semver.ParseTolerant: trims spaces and a leading "v", fills a short
\* version up with ".0"
ParseTolerant(str) ==
  LET s == TrimPrefix(TrimSpace(str), <<"v">>)
      parts == SplitN(s, ".", 3)
      last == parts[Len(parts)]
  IN
  IF Len(parts) < 3
  THEN IF Contains(last, <<"+">>) \/ Contains(last, <<"-">>) THEN NoVersion
       ELSE Parse(Join(parts \o (IF Len(parts) = 1 THEN <<<<"0">>, <<"0">>>> ELSE <<<<"0">>>>), <<".">>))
  ELSE Parse(s)

\* variant: the pre-release part is ignored
Compare_IgnorePre(v, o) ==
  IF v.Major # o.Major THEN (IF v.Major > o.Major THEN 1 ELSE -1)
  ELSE IF v.Minor # o.Minor THEN (IF v.Minor > o.Minor THEN 1 ELSE -1)
  ELSE IF v.Patch # o.Patch THEN (IF v.Patch > o.Patch THEN 1 ELSE -1)
  ELSE 0

\* Version.Compare(o) for an o without pre-release part (the threshold):
\* numeric on major, minor, patch, then a pre-release sorts below its release
Compare(v, o) ==
  IF v.Major # o.Major THEN (IF v.Major > o.Major THEN 1 ELSE -1)
  ELSE IF v.Minor # o.Minor THEN (IF v.Minor > o.Minor THEN 1 ELSE -1)
  ELSE IF v.Patch # o.Patch THEN (IF v.Patch > o.Patch THEN 1 ELSE -1)
  ELSE IF Len(v.Pre) = 0 /\ Len(o.Pre) = 0 THEN 0
  ELSE IF Len(v.Pre) = 0 /\ Len(o.Pre) > 0 THEN 1
  ELSE IF Len(v.Pre) > 0 /\ Len(o.Pre) = 0 THEN -1
  ELSE 0

GE(v, o) == Compare(v, o) >= 0

\* variant: strictly greater than the threshold
SelectTemplate_Greater(requestedVersion) ==
  IF Compare(requestedVersion, ParseTolerant(thresholdVersion)) > 0 THEN "V1_1" ELSE "V0"

\* the template createMainGoFile picks for a parsed version (lines 203-212)
SelectTemplate(requestedVersion) ==
  IF GE(requestedVersion, ParseTolerant(thresholdVersion)) THEN "V1_1" ELSE "V0"

\* ------------------------------------------------------------------------
\* Inputs: what the build finds on disk and what the external commands print
\* ------------------------------------------------------------------------
ApplicationRoot == <<"/", "w", "o", "r", "k", "s", "p", "a", "c", "e">>
TempRoot == <<"/", "t", "m", "p">>

\* filepath.Join of non-empty elements
FilepathJoin(elems) == Join(elems, <<"/">>)

GoModRel == <<"g", "o", ".", "m", "o", "d">>
VendoredFrameworkRel == FilepathJoin(<<<<"v", "e", "n", "d", "o", "r">>, functionsFrameworkPackage>>)

\* contents of the function source tree that the build looks at
FnTrees == SUBSET {GoModRel, VendoredFrameworkRel}

\* permission bits of the function's go.mod (0644, 0444, 0200, 0466)
GoModPerms == {420, 292, 128, 310}

Targets == {<<"H", "e", "l", "l", "o", "W", "o", "r", "l", "d">>}

\* package names the extraction helper prints
PackageNames == {<<"f", "n">>, <<"p">>, fnSourceDir}

\* module paths `go list -m` prints
ModuleIdentities ==
  {<<"e", "x", "a", "m", "p", "l", "e", ".", "c", "o", "m", "/", "f", "n">>, <<"a", ".", "b">>, <<"f", "o", "o", "/", "b", "a", "r">>, <<"f", "o", "o">>, <<"f", "o", "o", "/", "b", ".", "c">>}

\* decimal text of a number
RECURSIVE Decimal(_)
Decimal(n) ==
  IF n < 10 THEN <<Numbers[n + 1]>> ELSE Decimal(n \div 10) \o <<Numbers[(n % 10) + 1]>>

VersionText(prefix, major, minor, patch, suffix) ==
  prefix \o Decimal(major) \o <<".">> \o Decimal(minor) \o <<".">> \o Decimal(patch) \o suffix

VersionPrefixes == {<<>>, <<"v">>}
VersionSuffixes == {<<>>, <<"-", "r", "c", "1">>}

\* what `go list -m -f {{.Version}} <framework>` prints on success: versions
\* with a newline after them, and a few other texts
FrameworkVersionOutputs ==
  {VersionText(x, a, b, c, y) \o <<"\n">> :
     x \in VersionPrefixes, a \in 0..MaxMajor, b \in 0..MaxMinor, c \in 0..MaxPatch,
     y \in VersionSuffixes}
  \cup {<<"\n">>, <<>>, <<" ">> \o <<"v", "2", ".", "0", ".", "0">>, <<"v", "1", ".", "2">>, <<"d", "e", "v", "e", "l">> \o <<"\n">>,
        <<"v", "1", ".", "1", ".", "0", "+", "m", "e", "t", "a">>, <<"v", "1", ".", "1", "-", "r", "c", "1">>}

\* how it fails: with a result and its stderr, or with no result at all
FrameworkVersionFailures ==
  {[res |-> TRUE, stderr |-> <<"g", "o", ":", " ", "m", "o", "d", "u", "l", "e", " ", "x", ":", " ", "n", "o", "t", " ", "a", " ", "k", "n", "o", "w", "n", " ", "d", "e", "p", "e", "n", "d", "e", "n", "c", "y">>],
   [res |-> TRUE, stderr |-> <<"g", "o", ":", " ", "u", "p", "d", "a", "t", "e", "s", " ", "t", "o", " ", "g", "o", ".", "s", "u", "m", " ", "n", "e", "e", "d", "e", "d">>],
   [res |-> FALSE, stderr |-> <<>>]}

\* ------------------------------------------------------------------------
\* State
\* ------------------------------------------------------------------------
VARIABLES
  pc,               \* position in buildFn and its callees
  fnTree,           \* relative paths present in the function source tree
  goModPerm,        \* permission bits of the function's go.mod
  supportsNoGoMod,  \* golang.SupportsNoGoMod(ctx)
  fnTarget,         \* os.Getenv(env.FunctionTarget)
  treeAt,           \* directory that holds the function source tree now
  dirs,             \* directories the build created and that exist
  appGoMod,         \* go.mod of the generated application
  mainFiles,        \* entry-point files created by createMainGoFile
  fn,               \* the fnInfo value
  fnMod,            \* module path of the function
  strategy,         \* routine buildFn chose
  mainPath,         \* main argument of createMainGoFile
  version,          \* version argument of createMainGoFile
  tempCreated,      \* every directory ctx.TempDir returned
  deferred,         \* pending deferred ctx.RemoveAll calls
  cmds,             \* ctx.Exec / ctx.ExecWithErr / ctx.Rename calls so far
  layer,            \* the functions-framework layer
  err,              \* error returned by the strategy routine
  result,           \* how the build ended
  webProcesses,     \* ctx.AddWebProcess calls
  renderCalls       \* createMainGoFile calls

vars == <<pc, fnTree, goModPerm, supportsNoGoMod, fnTarget, treeAt, dirs, appGoMod,
          mainFiles, fn, fnMod, strategy, mainPath, version, tempCreated, deferred,
          cmds, layer, err, result, webProcesses, renderCalls>>

world == <<fnTree, goModPerm, supportsNoGoMod, fnTarget>>

NoFn == [Source |-> <<>>, Target |-> <<>>, Package |-> <<>>]

Init ==
  /\ pc = "move"
  /\ fnTree \in FnTrees
  /\ goModPerm \in (IF GoModRel \in fnTree THEN GoModPerms ELSE {0})
  /\ supportsNoGoMod \in BOOLEAN
  /\ fnTarget \in Targets
  /\ treeAt = ApplicationRoot
  /\ dirs = {ApplicationRoot}
  /\ appGoMod = [exists |-> FALSE, module |-> <<>>, require |-> <<>>, replace |-> <<>>]
  /\ mainFiles = {}
  /\ fn = NoFn
  /\ fnMod = <<>>
  /\ strategy = "undecided"
  /\ mainPath = <<>>
  /\ version = <<>>
  /\ tempCreated = <<>>
  /\ deferred = <<>>
  /\ cmds = <<>>
  /\ layer = [Build |-> FALSE, GOPATH |-> <<>>, Buildable |-> <<>>]
  /\ err = "nil"
  /\ result = "running"
  /\ webProcesses = 0
  /\ renderCalls = 0

\* ------------------------------------------------------------------------
\* gcp.Context operations
\* ------------------------------------------------------------------------
\* ctx.FileExists: a directory the build made, a file of the function source
\* tree where the tree is now, the generated go.mod, or a generated main.go
FileExists(path) ==
  \/ path \in dirs
  \/ \E r \in fnTree : path = FilepathJoin(<<treeAt, r>>)
  \/ appGoMod.exists /\ path = FilepathJoin(<<ApplicationRoot, GoModRel>>)
  \/ \E f \in mainFiles : f.path = path

\* ctx.TempDir("", appName): a fresh directory under the temp root
TempDirName == FilepathJoin(<<TempRoot, appName \o <<Numbers[Len(tempCreated) + 1]>>>>)

\* one call with what came back: res is false when ExecWithErr gave no result
CommandOut(argv, dir, ok, res, stdout, stderr) ==
  [argv |-> argv, dir |-> dir, ok |-> ok, res |-> res, stdout |-> stdout, stderr |-> stderr]
Command(argv, dir, ok) == CommandOut(argv, dir, ok, TRUE, <<>>, <<>>)

\* variant: nothing is deferred
DeferredOf_None(frame) == {}

\* directories removed by the deferred calls of one function when it returns
DeferredOf(frame) == {deferred[i].dir : i \in {j \in 1..Len(deferred) : deferred[j].frame = frame}}
RECURSIVE DropFrame(_, _)
DropFrame(stack, frame) ==
  IF Len(stack) = 0 THEN <<>>
  ELSE IF stack[Len(stack)].frame = frame
       THEN DropFrame(SubSeq(stack, 1, Len(stack) - 1), frame)
       ELSE Append(DropFrame(SubSeq(stack, 1, Len(stack) - 1), frame), stack[Len(stack)])

\* a failing ctx.Exec ends the build at once; scoped temporary directories
\* are removed on that path too
ExecExit(cmd, dirsNow) ==
  /\ cmds' = Append(cmds, cmd)
  /\ dirs' = dirsNow \ {deferred[i].dir : i \in 1..Len(deferred)}
  /\ deferred' = <<>>
  /\ result' = "ExternalToolFailure"
  /\ pc' = "done"

\* ------------------------------------------------------------------------
\* buildFn
\* ------------------------------------------------------------------------
\* variant: the first move already goes into the GOPATH source tree
fnSource_Gopath == FilepathJoin(<<ApplicationRoot, <<"s", "r", "c">>, fnSourceDir>>)
fnSource == FilepathJoin(<<ApplicationRoot, fnSourceDir>>)

MoveCommand == <<<<"b", "a", "s", "h">>, <<"-", "c">>, <<"f", "i", "n", "d", " ", ".", " ", "-", "e", "x", "e", "c", " ", "m", "v", " ", "-", "t", " ">> \o fnSourceDir>>

\* lines 73-79: move the function source into serverless_function_source_code
MoveSource ==
  /\ pc = "move"
  /\ \/ /\ cmds' = Append(cmds, Command(MoveCommand, ApplicationRoot, TRUE))
        /\ dirs' = dirs \cup {fnSource}
        /\ treeAt' = fnSource
        /\ pc' = "extract"
        /\ UNCHANGED <<deferred, result>>
     \/ /\ ExecExit(Command(MoveCommand, ApplicationRoot, FALSE), dirs \cup {fnSource})
        /\ UNCHANGED treeAt
  /\ UNCHANGED <<world, appGoMod, mainFiles, fn, fnMod, strategy, mainPath, version,
                 tempCreated, layer, err, webProcesses, renderCalls>>

\* lines 241-243: extractPackageNameInDir makes its cache directory
ExtractBegin ==
  /\ pc = "extract"
  /\ tempCreated' = Append(tempCreated, TempDirName)
  /\ dirs' = dirs \cup {TempDirName}
  /\ deferred' = Append(deferred, [frame |-> "extractPackageNameInDir", dir |-> TempDirName])
  /\ pc' = "extractRun"
  /\ UNCHANGED <<world, treeAt, appGoMod, mainFiles, fn, fnMod, strategy, mainPath,
                 version, cmds, layer, err, result, webProcesses, renderCalls>>

scriptDir == <<"/", "c", "n", "b", "/", "b", "u", "i", "l", "d", "p", "a", "c", "k", "/", "c", "o", "n", "v", "e", "r", "t", "e", "r", "/", "g", "e", "t", "_", "p", "a", "c", "k", "a", "g", "e">>
ExtractCommand(source) == <<<<"g", "o">>, <<"r", "u", "n">>, <<"m", "a", "i", "n">>, <<"-", "d", "i", "r">>, source>>

\* lines 244 and 81-86: run the helper, drop the cache, build the fnInfo
ExtractRun ==
  /\ pc = "extractRun"
  /\ \/ \E p \in PackageNames :
          /\ cmds' = Append(cmds, CommandOut(ExtractCommand(fnSource), scriptDir, TRUE, TRUE, p, <<>>))
          /\ dirs' = dirs \ DeferredOf("extractPackageNameInDir")
          /\ deferred' = DropFrame(deferred, "extractPackageNameInDir")
          /\ fn' = [Source |-> fnSource, Target |-> fnTarget, Package |-> p]
          /\ pc' = "resolve"
          /\ UNCHANGED result
     \/ /\ ExecExit(Command(ExtractCommand(fnSource), scriptDir, FALSE), dirs)
        /\ UNCHANGED fn
  /\ UNCHANGED <<world, treeAt, appGoMod, mainFiles, fnMod, strategy, mainPath, version,
                 tempCreated, layer, err, webProcesses, renderCalls>>

\* variant: tests the group write bit (0020)
OwnerWritable_GroupBit(perm) == (perm \div 16) % 2 = 1

\* info.Mode().Perm()&0200 != 0
OwnerWritable(perm) == (perm \div OwnerWriteBit) % 2 = 1

\* lines 88-105: which branch buildFn takes
ChooseStrategy(goModExists, perm, noGoModOk) ==
  IF ~goModExists
  THEN (IF ~noGoModOk THEN "RequiresGoMod" ELSE "VendoredLegacy")
  ELSE IF ~OwnerWritable(perm) THEN "GoModNotWritable"
  ELSE "ModuleBased"

ResolveStrategy ==
  /\ pc = "resolve"
  /\ LET goMod == FilepathJoin(<<fn.Source, GoModRel>>)
         choice == ChooseStrategy(FileExists(goMod), goModPerm, supportsNoGoMod)
     IN /\ strategy' = choice
        /\ \/ /\ choice \in {"RequiresGoMod", "GoModNotWritable"}
              /\ result' = "UserConfigurationError"
              /\ pc' = "done"
           \/ /\ choice = "VendoredLegacy"
              /\ pc' = "v_setup"
              /\ UNCHANGED result
           \/ /\ choice = "ModuleBased"
              /\ pc' = "m_init"
              /\ UNCHANGED result
  /\ UNCHANGED <<world, treeAt, dirs, appGoMod, mainFiles, fn, fnMod, mainPath, version,
                 tempCreated, deferred, cmds, layer, err, webProcesses, renderCalls>>

\* variant: the web process is registered whatever the routine returned
BuildFnReturn_AlwaysRegisters ==
  /\ pc = "return"
  /\ webProcesses' = webProcesses + 1
  /\ result' = IF err # "nil" THEN err ELSE "ok"
  /\ pc' = "done"
  /\ UNCHANGED <<world, treeAt, dirs, appGoMod, mainFiles, fn, fnMod, strategy, mainPath,
                 version, tempCreated, deferred, cmds, layer, err, renderCalls>>

\* lines 94-96, 102-108: the routine returned; register the web process
BuildFnReturn ==
  /\ pc = "return"
  /\ \/ /\ err # "nil"
        /\ result' = err
        /\ UNCHANGED webProcesses
     \/ /\ err = "nil"
        /\ webProcesses' = webProcesses + 1
        /\ result' = "ok"
  /\ pc' = "done"
  /\ UNCHANGED <<world, treeAt, dirs, appGoMod, mainFiles, fn, fnMod, strategy, mainPath,
                 version, tempCreated, deferred, cmds, layer, err, renderCalls>>

\* ------------------------------------------------------------------------
\* createMainGoMod
\* ------------------------------------------------------------------------
GoModInitCommand == <<<<"g", "o">>, <<"m", "o", "d">>, <<"i", "n", "i", "t">>, appName>>

\* line 112: go mod init serverless_function_app
GoModInit ==
  /\ pc = "m_init"
  /\ \/ /\ cmds' = Append(cmds, Command(GoModInitCommand, ApplicationRoot, TRUE))
        /\ appGoMod' = [appGoMod EXCEPT !.exists = TRUE, !.module = appName]
        /\ pc' = "m_list"
        /\ UNCHANGED <<dirs, deferred, result>>
     \/ /\ ExecExit(Command(GoModInitCommand, ApplicationRoot, FALSE), dirs)
        /\ UNCHANGED appGoMod
  /\ UNCHANGED <<world, treeAt, mainFiles, fn, fnMod, strategy, mainPath, version,
                 tempCreated, layer, err, webProcesses, renderCalls>>

GoListModuleCommand == <<<<"g", "o">>, <<"l", "i", "s", "t">>, <<"-", "m">>>>

\* line 116: the first element of the module path has no dot
FirstElementLacksDot(mod) ==
  LET parts == Split(mod, "/") IN Len(parts) > 0 /\ ~Contains(parts[1], <<".">>)

\* variant: the package name is always appended
ImportPath_AlwaysJoin(mod, package, packageDirExists) == mod \o <<"/">> \o package

\* lines 121-125: the package the generated main.go imports
ImportPath(mod, package, packageDirExists) ==
  IF packageDirExists THEN mod \o <<"/">> \o package ELSE mod

\* lines 114-125: module path of the function, its check, the import path
GoListModule ==
  /\ pc = "m_list"
  /\ \/ \E mod \in ModuleIdentities :
          /\ cmds' = Append(cmds, CommandOut(GoListModuleCommand, fn.Source, TRUE, TRUE, mod, <<>>))
          /\ fnMod' = mod
          /\ \/ /\ FirstElementLacksDot(mod)
                /\ err' = "UserConfigurationError"
                /\ pc' = "return"
                /\ UNCHANGED fn
             \/ /\ ~FirstElementLacksDot(mod)
                /\ fn' = [fn EXCEPT !.Package =
                            ImportPath(mod, fn.Package,
                                       FileExists(FilepathJoin(<<ApplicationRoot, fn.Package>>)))]
                /\ pc' = "m_require"
                /\ UNCHANGED err
          /\ UNCHANGED <<dirs, deferred, result>>
     \/ /\ ExecExit(Command(GoListModuleCommand, fn.Source, FALSE), dirs)
        /\ UNCHANGED <<fn, fnMod, err>>
  /\ UNCHANGED <<world, treeAt, appGoMod, mainFiles, strategy, mainPath, version,
                 tempCreated, layer, webProcesses, renderCalls>>

\* variant: the replace points at the module path, not at the source directory
ReplaceArg_ModulePath(mod, source) == mod \o <<"@">> \o placeholderVersion \o <<"=">> \o mod

RequireArg(mod) == mod \o <<"@">> \o placeholderVersion
ReplaceArg(mod, source) == mod \o <<"@">> \o placeholderVersion \o <<"=">> \o source
RequireCommand(mod) == <<<<"g", "o">>, <<"m", "o", "d">>, <<"e", "d", "i", "t">>, <<"-", "r", "e", "q", "u", "i", "r", "e">>, RequireArg(mod)>>
ReplaceCommand(mod, source) == <<<<"g", "o">>, <<"m", "o", "d">>, <<"e", "d", "i", "t">>, <<"-", "r", "e", "p", "l", "a", "c", "e">>, ReplaceArg(mod, source)>>

\* line 127: go mod edit -require <fnMod>@v0.0.0
GoModEditRequire ==
  /\ pc = "m_require"
  /\ \/ /\ cmds' = Append(cmds, Command(RequireCommand(fnMod), ApplicationRoot, TRUE))
        /\ appGoMod' = [appGoMod EXCEPT !.require = Append(@, RequireArg(fnMod))]
        /\ pc' = "m_replace"
        /\ UNCHANGED <<dirs, deferred, result>>
     \/ /\ ExecExit(Command(RequireCommand(fnMod), ApplicationRoot, FALSE), dirs)
        /\ UNCHANGED appGoMod
  /\ UNCHANGED <<world, treeAt, mainFiles, fn, fnMod, strategy, mainPath, version,
                 tempCreated, layer, err, webProcesses, renderCalls>>

\* line 128: go mod edit -replace <fnMod>@v0.0.0=<fn.Source>
GoModEditReplace ==
  /\ pc = "m_replace"
  /\ \/ /\ cmds' = Append(cmds, Command(ReplaceCommand(fnMod, fn.Source), ApplicationRoot, TRUE))
        /\ appGoMod' = [appGoMod EXCEPT !.replace = Append(@, ReplaceArg(fnMod, fn.Source))]
        /\ pc' = "m_version"
        /\ UNCHANGED <<dirs, deferred, result>>
     \/ /\ ExecExit(Command(ReplaceCommand(fnMod, fn.Source), ApplicationRoot, FALSE), dirs)
        /\ UNCHANGED appGoMod
  /\ UNCHANGED <<world, treeAt, mainFiles, fn, fnMod, strategy, mainPath, version,
                 tempCreated, layer, err, webProcesses, renderCalls>>

FrameworkVersionCommand ==
  <<<<"g", "o">>, <<"l", "i", "s", "t">>, <<"-", "m">>, <<"-", "f">>, <<"{", "{", ".", "V", "e", "r", "s", "i", "o", "n", "}", "}">>, functionsFrameworkModule>>

\* variant: every failure counts as "no version declared"
frameworkSpecifiedVersion_AnyFailure(failed, haveRes, stdout, stderr) ==
  IF ~failed THEN [v |-> TrimSpace(stdout), err |-> "nil"] ELSE [v |-> <<>>, err |-> "nil"]

\* lines 221-233: frameworkSpecifiedVersion; failed is the ExecWithErr error,
\* haveRes whether a result came with it
frameworkSpecifiedVersion(failed, haveRes, stdout, stderr) ==
  IF ~failed THEN [v |-> TrimSpace(stdout), err |-> "nil"]
  ELSE IF haveRes /\ Contains(stderr, unknownDependencyMarker) THEN [v |-> <<>>, err |-> "nil"]
  ELSE [v |-> <<>>, err |-> "ExternalToolFailure"]

AppMainPath == FilepathJoin(<<ApplicationRoot, <<"m", "a", "i", "n", ".", "g", "o">>>>)

\* variant: the error is recorded but createMainGoMod goes on
AfterFrameworkVersion_GoesOn(r) ==
  /\ err' = r.err
  /\ version' = r.v
  /\ mainPath' = mainPath
  /\ pc' = IF r.err # "nil" \/ r.v = <<>> THEN "m_get" ELSE "render"

\* variant: the pinned version is required whatever the answer
AfterFrameworkVersion_AlwaysGet(r) ==
  IF r.err # "nil"
  THEN /\ err' = r.err
       /\ pc' = "return"
       /\ UNCHANGED <<version, mainPath>>
  ELSE /\ version' = r.v
       /\ mainPath' = mainPath
       /\ pc' = "m_get"
       /\ UNCHANGED err

\* lines 130-135, 140: what createMainGoMod does with the answer
AfterFrameworkVersion(r) ==
  IF r.err # "nil"
  THEN /\ err' = r.err
       /\ pc' = "return"
       /\ UNCHANGED <<version, mainPath>>
  ELSE /\ version' = r.v
       /\ mainPath' = IF r.v = <<>> THEN mainPath ELSE AppMainPath
       /\ pc' = IF r.v = <<>> THEN "m_get" ELSE "render"
       /\ UNCHANGED err

FrameworkVersion ==
  /\ pc = "m_version"
  /\ \/ \E out \in FrameworkVersionOutputs :
          /\ cmds' = Append(cmds, CommandOut(FrameworkVersionCommand, fn.Source, TRUE, TRUE, out, <<>>))
          /\ AfterFrameworkVersion(frameworkSpecifiedVersion(FALSE, TRUE, out, <<>>))
     \/ \E f \in FrameworkVersionFailures :
          /\ cmds' = Append(cmds, CommandOut(FrameworkVersionCommand, fn.Source, FALSE, f.res, <<>>, f.stderr))
          /\ AfterFrameworkVersion(frameworkSpecifiedVersion(TRUE, f.res, <<>>, f.stderr))
  /\ UNCHANGED <<world, treeAt, dirs, appGoMod, mainFiles, fn, fnMod, strategy,
                 tempCreated, deferred, layer, result, webProcesses, renderCalls>>

FrameworkRequirement == functionsFrameworkModule \o <<"@">> \o functionsFrameworkVersion
GoGetCommand == <<<<"g", "o">>, <<"g", "e", "t">>, FrameworkRequirement>>

\* lines 135-138: no version declared, require the pinned one
GoGetFramework ==
  /\ pc = "m_get"
  /\ \/ /\ cmds' = Append(cmds, Command(GoGetCommand, ApplicationRoot, TRUE))
        /\ appGoMod' = [appGoMod EXCEPT !.require = Append(@, FrameworkRequirement)]
        /\ version' = functionsFrameworkVersion
        /\ mainPath' = AppMainPath
        /\ pc' = "render"
        /\ UNCHANGED <<dirs, deferred, result>>
     \/ /\ ExecExit(Command(GoGetCommand, ApplicationRoot, FALSE), dirs)
        /\ UNCHANGED <<appGoMod, version, mainPath>>
  /\ UNCHANGED <<world, treeAt, mainFiles, fn, fnMod, strategy,
                 tempCreated, layer, err, webProcesses, renderCalls>>

\* ------------------------------------------------------------------------
\* createMainVendored
\* ------------------------------------------------------------------------
gopathSrc == FilepathJoin(<<ApplicationRoot, <<"s", "r", "c">>>>)
appPath == FilepathJoin(<<gopathSrc, appName, <<"m", "a", "i", "n">>>>)
\* variant: main.go of the vendored strategy at the application root
VendoredMainPath_AppRoot == AppMainPath
VendoredMainPath == FilepathJoin(<<appPath, <<"m", "a", "i", "n", ".", "g", "o">>>>)
fnVendoredPath(package) == FilepathJoin(<<gopathSrc, package, <<"v", "e", "n", "d", "o", "r">>>>)
\* variant: looks for the framework module directory, not the package
fnFrameworkVendoredPath_Module(package) ==
  FilepathJoin(<<fnVendoredPath(package), functionsFrameworkModule>>)
fnFrameworkVendoredPath(package) == FilepathJoin(<<fnVendoredPath(package), functionsFrameworkPackage>>)

\* lines 151-159: the GOPATH layout and the layer's build environment
VendoredSetup ==
  /\ pc = "v_setup"
  /\ layer' = [Build |-> TRUE, GOPATH |-> ApplicationRoot, Buildable |-> appName \o <<"/", "m", "a", "i", "n">>]
  /\ dirs' = dirs \cup {gopathSrc, FilepathJoin(<<gopathSrc, appName>>), appPath}
  /\ pc' = "v_rename"
  /\ UNCHANGED <<world, treeAt, appGoMod, mainFiles, fn, fnMod, strategy, mainPath, version,
                 tempCreated, deferred, cmds, err, result, webProcesses, renderCalls>>

RenameCall(from, to) == <<<<"r", "e", "n", "a", "m", "e">>, from, to>>

\* line 162: move the function source into GOPATH; fn.Source keeps its value
RenameSource ==
  /\ pc = "v_rename"
  /\ LET to == FilepathJoin(<<gopathSrc, fn.Package>>) IN
       /\ cmds' = Append(cmds, Command(RenameCall(fn.Source, to), ApplicationRoot, TRUE))
       /\ dirs' = (dirs \ {fn.Source}) \cup {to}
       /\ treeAt' = to
  /\ pc' = "v_check"
  /\ UNCHANGED <<world, appGoMod, mainFiles, fn, fnMod, strategy, mainPath, version,
                 tempCreated, deferred, layer, err, result, webProcesses, renderCalls>>

\* lines 164-181: is the framework vendored; if not, make the GOCACHE directory
CheckVendoredFramework ==
  /\ pc = "v_check"
  /\ \/ /\ FileExists(fnFrameworkVendoredPath(fn.Package))
        /\ pc' = "v_copy"
        /\ UNCHANGED <<dirs, tempCreated, deferred>>
     \/ /\ ~FileExists(fnFrameworkVendoredPath(fn.Package))
        /\ tempCreated' = Append(tempCreated, TempDirName)
        /\ dirs' = dirs \cup {TempDirName}
        /\ deferred' = Append(deferred, [frame |-> "createMainVendored", dir |-> TempDirName])
        /\ pc' = "v_get"
  /\ UNCHANGED <<world, treeAt, appGoMod, mainFiles, fn, fnMod, strategy, mainPath, version,
                 cmds, layer, err, result, webProcesses, renderCalls>>

CopyCommand(package) == <<<<"c", "p">>, <<"-", "r">>, fnVendoredPath(package), appPath>>

\* lines 170-173 and 191: copy the vendor directory, ask for v0.0.0
CopyVendor ==
  /\ pc = "v_copy"
  /\ \/ /\ cmds' = Append(cmds, Command(CopyCommand(fn.Package), ApplicationRoot, TRUE))
        /\ dirs' = dirs \cup {FilepathJoin(<<appPath, <<"v", "e", "n", "d", "o", "r">>>>)}
        /\ version' = placeholderVersion
        /\ mainPath' = VendoredMainPath
        /\ pc' = "render"
        /\ UNCHANGED <<deferred, result>>
     \/ /\ ExecExit(Command(CopyCommand(fn.Package), ApplicationRoot, FALSE), dirs)
        /\ UNCHANGED <<version, mainPath>>
  /\ UNCHANGED <<world, treeAt, appGoMod, mainFiles, fn, fnMod, strategy,
                 tempCreated, layer, err, webProcesses, renderCalls>>

LegacyGetCommand == <<<<"g", "o">>, <<"g", "e", "t">>, functionsFrameworkPackage>>
frameworkRepo == FilepathJoin(<<gopathSrc, functionsFrameworkModule>>)

\* line 185: GOPATH go get of the framework package
GoGetLegacy ==
  /\ pc = "v_get"
  /\ \/ /\ cmds' = Append(cmds, Command(LegacyGetCommand, ApplicationRoot, TRUE))
        /\ dirs' = dirs \cup {frameworkRepo}
        /\ pc' = "v_checkout"
        /\ UNCHANGED <<deferred, result>>
     \/ ExecExit(Command(LegacyGetCommand, ApplicationRoot, FALSE), dirs)
  /\ UNCHANGED <<world, treeAt, appGoMod, mainFiles, fn, fnMod, strategy, mainPath, version,
                 tempCreated, layer, err, webProcesses, renderCalls>>

CheckoutCommand == <<<<"g", "i", "t">>, <<"c", "h", "e", "c", "k", "o", "u", "t">>, functionsFrameworkVersion>>

\* lines 186-191: check out the pinned tag, ask for the pinned version
GitCheckout ==
  /\ pc = "v_checkout"
  /\ \/ /\ cmds' = Append(cmds, Command(CheckoutCommand, frameworkRepo, TRUE))
        /\ version' = functionsFrameworkVersion
        /\ mainPath' = VendoredMainPath
        /\ pc' = "render"
        /\ UNCHANGED <<dirs, deferred, result>>
     \/ /\ ExecExit(Command(CheckoutCommand, frameworkRepo, FALSE), dirs)
        /\ UNCHANGED <<version, mainPath>>
  /\ UNCHANGED <<world, treeAt, appGoMod, mainFiles, fn, fnMod, strategy,
                 tempCreated, layer, err, webProcesses, renderCalls>>

\* lines 181 and 191: createMainVendored returns, its deferred RemoveAll runs
VendoredReturn ==
  /\ pc = "v_return"
  /\ dirs' = dirs \ DeferredOf("createMainVendored")
  /\ deferred' = DropFrame(deferred, "createMainVendored")
  /\ pc' = "return"
  /\ UNCHANGED <<world, treeAt, appGoMod, mainFiles, fn, fnMod, strategy, mainPath, version,
                 tempCreated, cmds, layer, err, result, webProcesses, renderCalls>>

\* ------------------------------------------------------------------------
\* createMainGoFile
\* ------------------------------------------------------------------------
\* ctx.CreateFile: the file exists and is empty
EmptyFile(path) ==
  [path |-> path, written |-> FALSE, variant |-> "none",
   Source |-> <<>>, Target |-> <<>>, Package |-> <<>>]

\* tmpl.Execute(f, fn): the template of the variant with the fnInfo fields
RenderedFile(path, variant, info) ==
  [path |-> path, written |-> TRUE, variant |-> variant,
   Source |-> info.Source, Target |-> info.Target, Package |-> info.Package]

CreateFile(files, path) == {f \in files : f.path # path} \cup {EmptyFile(path)}

\* lines 194-218
CreateMainGoFile ==
  /\ pc = "render"
  /\ renderCalls' = renderCalls + 1
  /\ LET requestedVersion == ParseTolerant(version) IN
       \/ /\ ~requestedVersion.ok
          /\ mainFiles' = CreateFile(mainFiles, mainPath)
          /\ err' = "ParseError"
       \/ /\ requestedVersion.ok
          /\ \/ /\ mainFiles' = {f \in mainFiles : f.path # mainPath} \cup
                                {RenderedFile(mainPath, SelectTemplate(requestedVersion), fn)}
                /\ UNCHANGED err
             \/ /\ mainFiles' = CreateFile(mainFiles, mainPath)
                /\ err' = "RenderError"
  /\ pc' = IF strategy = "VendoredLegacy" THEN "v_return" ELSE "return"
  /\ UNCHANGED <<world, treeAt, dirs, appGoMod, fn, fnMod, strategy, mainPath, version,
                 tempCreated, deferred, cmds, layer, result, webProcesses>>

\* ------------------------------------------------------------------------
\* The build
\* ------------------------------------------------------------------------
Next ==
  \/ MoveSource
  \/ ExtractBegin
  \/ ExtractRun
  \/ ResolveStrategy
  \/ GoModInit
  \/ GoListModule
  \/ GoModEditRequire
  \/ GoModEditReplace
  \/ FrameworkVersion
  \/ GoGetFramework
  \/ VendoredSetup
  \/ RenameSource
  \/ CheckVendoredFramework
  \/ CopyVendor
  \/ GoGetLegacy
  \/ GitCheckout
  \/ VendoredReturn
  \/ CreateMainGoFile
  \/ BuildFnReturn

Spec == Init /\ [][Next]_vars

TypeOK ==
  /\ pc \in {"move", "extract", "extractRun", "resolve", "m_init", "m_list", "m_require",
             "m_replace", "m_version", "m_get", "v_setup", "v_rename", "v_check", "v_copy",
             "v_get", "v_checkout", "v_return", "render", "return", "done"}
  /\ result \in {"running", "ok", "UserConfigurationError", "ExternalToolFailure",
                 "ParseError", "RenderError"}
  /\ strategy \in {"undecided", "RequiresGoMod", "GoModNotWritable", "VendoredLegacy", "ModuleBased"}
  /\ webProcesses \in 0..1
  /\ renderCalls \in 0..1
  /\ (pc = "done") = (result # "running")

\* ------------------------------------------------------------------------
\* Properties
\* ------------------------------------------------------------------------
Issued(argv) == {i \in DOMAIN cmds : cmds[i].argv = argv}
IssuedWith(k, word) == {i \in DOMAIN cmds : Len(cmds[i].argv) >= k /\ cmds[i].argv[k] = word}

\* the routine of the module strategy, or of the vendored one, has been entered
RanModuleRoutine == pc = "m_init" \/ Issued(<<<<"g", "o">>, <<"m", "o", "d">>, <<"i", "n", "i", "t">>, <<"s", "e", "r", "v", "e", "r", "l", "e", "s", "s", "_", "f", "u", "n", "c", "t", "i", "o", "n", "_", "a", "p", "p">>>>) # {}
RanVendoredRoutine == pc = "v_setup" \/ layer.Build

ManifestPresent == <<"g", "o", ".", "m", "o", "d">> \in fnTree
ManifestWritable == goModPerm \in {420, 128}

\* C1: once buildFn has resolved the strategy, the outcome follows the table:
\* no manifest and no manifest-free support, or a manifest that its owner
\* cannot write, end the build with a user configuration error and neither
\* routine has run; no manifest with support runs only the vendored routine;
\* a writable manifest runs only the module routine.
C1_StrategyTable ==
  strategy # "undecided" =>
    /\ (~ManifestPresent /\ ~supportsNoGoMod) =>
         (result = "UserConfigurationError" /\ ~RanModuleRoutine /\ ~RanVendoredRoutine)
    /\ (~ManifestPresent /\ supportsNoGoMod) => (RanVendoredRoutine /\ ~RanModuleRoutine)
    /\ (ManifestPresent /\ ~ManifestWritable) =>
         (result = "UserConfigurationError" /\ ~RanModuleRoutine /\ ~RanVendoredRoutine)
    /\ (ManifestPresent /\ ManifestWritable) => (RanModuleRoutine /\ ~RanVendoredRoutine)

C1_Witness ==
  /\ ManifestPresent /\ goModPerm = 310
  /\ result = "UserConfigurationError" /\ strategy = "GoModNotWritable"

\* the first '/'-separated segment of a module path contains a dot
DottedFirstSegment(mod) ==
  \E i \in 1..Len(mod) : mod[i] = "." /\ \A j \in 1..(i - 1) : mod[j] # "/"

\* the module path the wiring engine got from `go list -m`
ModuleQueried == Issued(<<<<"g", "o">>, <<"l", "i", "s", "t">>, <<"-", "m">>>>) # {} /\ \A i \in Issued(<<<<"g", "o">>, <<"l", "i", "s", "t">>, <<"-", "m">>>>) : cmds[i].ok

\* C2: when createMainGoMod rejects a module path whose first segment has no
\* dot, it has written nothing under the application root: the generated
\* application's go.mod does not exist, carries no require or replace, and
\* no entry-point file exists.
C2_RejectBeforeMutation ==
  (ModuleQueried /\ ~DottedFirstSegment(fnMod) /\ err = "UserConfigurationError") =>
    /\ ~appGoMod.exists
    /\ appGoMod.require = <<>> /\ appGoMod.replace = <<>>
    /\ mainFiles = {}

AtLeast110(a, b, c) == a > 1 \/ (a = 1 /\ (b > 1 \/ (b = 1 /\ c >= 0)))

Rendered == renderCalls = 1

\* C3: createMainGoFile called with the text of a release version a.b.c, with
\* or without a leading "v", parses it and renders V1_1 exactly when
\* (a, b, c) >= (1, 1, 0) as numbers, V0 otherwise.
C3_ReleaseThreshold ==
  \A a \in 0..MaxMajor, b \in 0..MaxMinor, c \in 0..MaxPatch, x \in {<<>>, <<"v">>} :
    (Rendered /\ version = x \o Decimal(a) \o <<".">> \o Decimal(b) \o <<".">> \o Decimal(c)) =>
      /\ err # "ParseError"
      /\ \A f \in mainFiles :
           f.written => (f.variant = (IF AtLeast110(a, b, c) THEN "V1_1" ELSE "V0"))

C3_Witness ==
  /\ version = <<"1", ".", "0", ".", "1", "0">>
  /\ \E f \in mainFiles : f.written /\ f.variant = "V0"

\* C4 as stated: "1.1.0-rc1" renders V1_1.
C4_PreReleaseMeetsThreshold ==
  (Rendered /\ version = <<"1", ".", "1", ".", "0", "-", "r", "c", "1">>) =>
    /\ err # "ParseError"
    /\ \A f \in mainFiles : f.written => f.variant = "V1_1"

\* C4, amended: a pre-release of the threshold version ("1.1.0-rc1",
\* "v1.1.0-rc1") parses tolerantly and sorts below the threshold, so
\* createMainGoFile renders V0 for it.
C4_PreReleaseBelowThreshold ==
  (Rendered /\ version \in {<<"1", ".", "1", ".", "0", "-", "r", "c", "1">>, <<"v", "1", ".", "1", ".", "0", "-", "r", "c", "1">>}) =>
    /\ err # "ParseError"
    /\ \A f \in mainFiles : f.written => f.variant = "V0"

C4_Witness ==
  /\ version = <<"1", ".", "1", ".", "0", "-", "r", "c", "1">>
  /\ \E f \in mainFiles : f.written /\ f.variant = "V0"

RequireEdits == IssuedWith(4, <<"-", "r", "e", "q", "u", "i", "r", "e">>)
ReplaceEdits == IssuedWith(4, <<"-", "r", "e", "p", "l", "a", "c", "e">>)

\* C5: for a module path whose first segment has a dot, createMainGoMod does
\* not reject it, runs at most one `go mod edit -require` and at most one
\* `go mod edit -replace`, exactly one of each once it goes on to ask for the
\* framework version; the require names <path>@v0.0.0, the replace names
\* <path>@v0.0.0=<directory that holds the function source>, and the replace
\* comes after the successful require.
C5_RequireThenReplace ==
  (ModuleQueried /\ DottedFirstSegment(fnMod)) =>
    /\ err # "UserConfigurationError"
    /\ Cardinality(RequireEdits) <= 1
    /\ Cardinality(ReplaceEdits) <= 1
    /\ \A i \in RequireEdits : cmds[i].argv[5] = fnMod \o <<"@", "v", "0", ".", "0", ".", "0">>
    /\ \A i \in ReplaceEdits :
         /\ cmds[i].argv[5] = fnMod \o <<"@", "v", "0", ".", "0", ".", "0", "=">> \o treeAt
         /\ \E j \in RequireEdits : j < i /\ cmds[j].ok
    /\ (pc = "m_version" \/ IssuedWith(5, <<"{", "{", ".", "V", "e", "r", "s", "i", "o", "n", "}", "}">>) # {}) =>
         (Cardinality(RequireEdits) = 1 /\ Cardinality(ReplaceEdits) = 1)

C5_Witness ==
  /\ pc = "m_version" /\ fnMod = <<"e", "x", "a", "m", "p", "l", "e", ".", "c", "o", "m", "/", "f", "n">>
  /\ Cardinality(RequireEdits) = 1 /\ Cardinality(ReplaceEdits) = 1

FrameworkVendored ==
  <<"v", "e", "n", "d", "o", "r", "/", "g", "i", "t", "h", "u", "b", ".", "c", "o", "m", "/", "G", "o", "o", "g", "l", "e", "C", "l", "o", "u", "d", "P", "l", "a", "t", "f", "o", "r", "m", "/", "f", "u", "n", "c", "t", "i", "o", "n", "s", "-", "f", "r", "a", "m", "e", "w", "o", "r", "k", "-", "g", "o", "/", "f", "u", "n", "c", "f", "r", "a", "m", "e", "w", "o", "r", "k">> \in fnTree
LegacyFetches ==
  Issued(<<<<"g", "o">>, <<"g", "e", "t">>, <<"g", "i", "t", "h", "u", "b", ".", "c", "o", "m", "/", "G", "o", "o", "g", "l", "e", "C", "l", "o", "u", "d", "P", "l", "a", "t", "f", "o", "r", "m", "/", "f", "u", "n", "c", "t", "i", "o", "n", "s", "-", "f", "r", "a", "m", "e", "w", "o", "r", "k", "-", "g", "o", "/", "f", "u", "n", "c", "f", "r", "a", "m", "e", "w", "o", "r", "k">>>>)
Checkouts == IssuedWith(2, <<"c", "h", "e", "c", "k", "o", "u", "t">>)
VendorCopies == IssuedWith(1, <<"c", "p">>)

\* C6: in createMainVendored, with the framework vendored no fetch and no
\* checkout is ever run; without it at most one fetch and one checkout run,
\* the checkout is of v1.1.0 and follows the successful fetch, the vendor copy
\* is not run, and both have run once by the time main.go is rendered.
C6_VendoredBranches ==
  RanVendoredRoutine =>
    /\ FrameworkVendored => (LegacyFetches = {} /\ Checkouts = {})
    /\ ~FrameworkVendored =>
         /\ VendorCopies = {}
         /\ Cardinality(LegacyFetches) <= 1
         /\ Cardinality(Checkouts) <= 1
         /\ \A i \in Checkouts :
              /\ cmds[i].argv = <<<<"g", "i", "t">>, <<"c", "h", "e", "c", "k", "o", "u", "t">>, <<"v", "1", ".", "1", ".", "0">>>>
              /\ \E j \in LegacyFetches : j < i /\ cmds[j].ok
         /\ Rendered => (Cardinality(LegacyFetches) = 1 /\ Cardinality(Checkouts) = 1)

C6_Witness ==
  /\ RanVendoredRoutine /\ ~FrameworkVendored /\ result = "ok"
  /\ Cardinality(LegacyFetches) = 1 /\ Cardinality(Checkouts) = 1

\* C7: when the build has ended, however it ended, no directory that
\* ctx.TempDir returned during the run exists.
C7_TempDirsRemoved ==
  pc = "done" => \A i \in DOMAIN tempCreated : tempCreated[i] \notin dirs

C7_Witness ==
  pc = "done" /\ Len(tempCreated) = 2 /\ result = "ok"

VersionQueries == IssuedWith(5, <<"{", "{", ".", "V", "e", "r", "s", "i", "o", "n", "}", "}">>)
UnknownDependencyText == <<"g", "o", ":", " ", "m", "o", "d", "u", "l", "e", " ", "x", ":", " ", "n", "o", "t", " ", "a", " ", "k", "n", "o", "w", "n", " ", "d", "e", "p", "e", "n", "d", "e", "n", "c", "y">>

\* v is raw without the white space around it
Stripped(raw, v) ==
  /\ \A i \in 1..Len(v) : v[i] \notin {" ", "\n"}
  /\ \E a \in 0..Len(raw) :
       /\ a + Len(v) <= Len(raw)
       /\ SubSeq(raw, a + 1, a + Len(v)) = v
       /\ \A i \in (1..a) \cup ((a + Len(v) + 1)..Len(raw)) : raw[i] \in {" ", "\n"}

\* C8: the framework version query has three outcomes. A successful command
\* yields its output without surrounding white space as the version (when it
\* is not empty). A failure whose stderr has "not a known dependency" is no
\* error: createMainGoMod goes on to require the pinned version. Any other
\* failure is returned as an error: no command follows it and no entry-point
\* file is created.
C8_FrameworkVersionOutcomes ==
  \A i \in VersionQueries :
    /\ (cmds[i].ok /\ ~Stripped(cmds[i].stdout, <<>>)) =>
         (err # "ExternalToolFailure" /\ Stripped(cmds[i].stdout, version) /\ pc # "m_get")
    /\ (~cmds[i].ok /\ cmds[i].res /\ cmds[i].stderr = UnknownDependencyText) =>
         /\ err # "ExternalToolFailure"
         /\ pc = "m_get" \/ IssuedWith(2, <<"g", "e", "t">>) # {}
    /\ (~cmds[i].ok /\ ~(cmds[i].res /\ cmds[i].stderr = UnknownDependencyText)) =>
         /\ err = "ExternalToolFailure"
         /\ i = Len(cmds)
         /\ pc \in {"return", "done"}
         /\ pc = "done" => result = "ExternalToolFailure"
         /\ mainFiles = {} /\ renderCalls = 0

C8_Witness ==
  /\ pc = "done" /\ result = "ExternalToolFailure" /\ mainFiles = {}
  /\ \E i \in VersionQueries : ~cmds[i].ok /\ cmds[i].res

Extracted == {cmds[i].stdout : i \in {j \in IssuedWith(2, <<"r", "u", "n">>) : cmds[j].ok}}

C10_OneEntryPoint ==
  /\ renderCalls <= 1
  /\ result = "ok" =>
       /\ renderCalls = 1
       /\ Cardinality(mainFiles) = 1
       /\ \A f \in mainFiles :
            /\ f.path = (IF RanVendoredRoutine
                         THEN <<"/", "w", "o", "r", "k", "s", "p", "a", "c", "e", "/", "s", "r", "c", "/", "s", "e", "r", "v", "e", "r", "l", "e", "s", "s", "_", "f", "u", "n", "c", "t", "i", "o", "n", "_", "a", "p", "p", "/", "m", "a", "i", "n", "/", "m", "a", "i", "n", ".", "g", "o">>
                         ELSE <<"/", "w", "o", "r", "k", "s", "p", "a", "c", "e", "/", "m", "a", "i", "n", ".", "g", "o">>)
            /\ f.written /\ f.variant \in {"V0", "V1_1"}
            /\ f.Source = fn.Source /\ f.Target = fnTarget /\ f.Package = fn.Package

C10_Witness ==
  /\ result = "ok" /\ RanVendoredRoutine
  /\ \E f \in mainFiles : f.written /\ f.variant = "V0"

\* a step of the build has failed: an error was returned, the build ended
\* with an error, or a command failed other than the framework version query
\* answering "not a known dependency"
StepFailed ==
  \/ err # "nil"
  \/ result \notin {"running", "ok"}
  \/ \E i \in DOMAIN cmds :
       /\ ~cmds[i].ok
       /\ ~(i \in VersionQueries /\ cmds[i].res /\ cmds[i].stderr = UnknownDependencyText)

\* C11: once a step has failed, no step of the build invokes a command
\* (so no failed command is run again), creates or changes a file, moves the
\* source tree or creates a directory; directories are only removed.
C11_FailFast ==
  [][StepFailed =>
       /\ cmds' = cmds
       /\ mainFiles' = mainFiles
       /\ appGoMod' = appGoMod
       /\ treeAt' = treeAt
       /\ dirs' \subseteq dirs
       /\ tempCreated' = tempCreated
       /\ webProcesses' = webProcesses]_vars

C11_Witness ==
  /\ pc = "done" /\ result = "ExternalToolFailure" /\ err = "ExternalToolFailure"
  /\ \E i \in VersionQueries : i = Len(cmds) /\ ~cmds[i].ok

Renames == IssuedWith(1, <<"r", "e", "n", "a", "m", "e">>)
Moves == IssuedWith(1, <<"b", "a", "s", "h">>) \cup Renames

\* C12 as stated: no move of the function source before buildFn has decided
\* the strategy.
C12_NoMoveBeforeDecision ==
  strategy = "undecided" => (Moves = {} /\ treeAt = <<"/", "w", "o", "r", "k", "s", "p", "a", "c", "e">>)

\* C12, amended: the move of the function source into the GOPATH source
\* tree (ctx.Rename) happens only after buildFn has chosen the vendored
\* strategy; before the decision the source is at the application root or,
\* after the first move of buildFn, in serverless_function_source_code.
C12_RenameAfterDecision ==
  /\ strategy = "undecided" =>
       /\ Renames = {}
       /\ treeAt \in {<<"/", "w", "o", "r", "k", "s", "p", "a", "c", "e">>, <<"/", "w", "o", "r", "k", "s", "p", "a", "c", "e", "/", "s", "e", "r", "v", "e", "r", "l", "e", "s", "s", "_", "f", "u", "n", "c", "t", "i", "o", "n", "_", "s", "o", "u", "r", "c", "e", "_", "c", "o", "d", "e">>}
  /\ (Renames # {} \/ HasPrefix(treeAt, <<"/", "w", "o", "r", "k", "s", "p", "a", "c", "e", "/", "s", "r", "c", "/">>)) => strategy = "VendoredLegacy"

C12_Witness ==
  /\ strategy = "VendoredLegacy" /\ Renames # {}
  /\ HasPrefix(treeAt, <<"/", "w", "o", "r", "k", "s", "p", "a", "c", "e", "/", "s", "r", "c", "/">>)

\* C13: when a routine is handed the fnInfo (the strategy routines and
\* createMainGoFile), fn.Source is a directory that exists.
C13_SourceExists ==
  pc \in {"m_init", "v_setup", "render"} => fn.Source \in dirs

InitIssued == Issued(<<<<"g", "o">>, <<"m", "o", "d">>, <<"i", "n", "i", "t">>, <<"s", "e", "r", "v", "e", "r", "l", "e", "s", "s", "_", "f", "u", "n", "c", "t", "i", "o", "n", "_", "a", "p", "p">>>>)

\* C14: createMainGoMod initialises the generated application's module only
\* after it has queried the function's module path and found a dot in its
\* first segment.
C14_InitAfterValidation ==
  (InitIssued # {} \/ appGoMod.exists) =>
    /\ ModuleQueried /\ DottedFirstSegment(fnMod)
    /\ \A i \in InitIssued : \E j \in Issued(<<<<"g", "o">>, <<"l", "i", "s", "t">>, <<"-", "m">>>>) : j < i

FrameworkGets ==
  Issued(<<<<"g", "o">>, <<"g", "e", "t">>, <<"g", "i", "t", "h", "u", "b", ".", "c", "o", "m", "/", "G", "o", "o", "g", "l", "e", "C", "l", "o", "u", "d", "P", "l", "a", "t", "f", "o", "r", "m", "/", "f", "u", "n", "c", "t", "i", "o", "n", "s", "-", "f", "r", "a", "m", "e", "w", "o", "r", "k", "-", "g", "o", "@", "v", "1", ".", "1", ".", "0">>>>)

\* the framework version query said "unspecified": it failed with the
\* unknown-dependency text, or succeeded with nothing but white space
ReportedUnspecified ==
  \E i \in VersionQueries :
    \/ ~cmds[i].ok /\ cmds[i].res /\ cmds[i].stderr = UnknownDependencyText
    \/ cmds[i].ok /\ Stripped(cmds[i].stdout, <<>>)
ReportedDeclared ==
  \E i \in VersionQueries : cmds[i].ok /\ ~Stripped(cmds[i].stdout, <<>>)

\* C15: in createMainGoMod `go get <framework>@v1.1.0` is run, once, exactly
\* when the version query said "unspecified"; createMainGoFile then gets
\* v1.1.0, and with a declared version it gets that version and no go get
\* has run.
C15_PinnedWhenUnspecified ==
  /\ IssuedWith(2, <<"g", "e", "t">>) # {} /\ RanModuleRoutine => ReportedUnspecified
  /\ Cardinality(FrameworkGets) <= 1
  /\ (ReportedUnspecified /\ pc # "m_get") => Cardinality(FrameworkGets) = 1
  /\ (ReportedUnspecified /\ (pc = "render" \/ Rendered)) => version = <<"v", "1", ".", "1", ".", "0">>
  /\ ReportedDeclared =>
       /\ IssuedWith(2, <<"g", "e", "t">>) = {}
       /\ pc # "m_get"
       /\ \A i \in VersionQueries : Stripped(cmds[i].stdout, version)

C15_Witness ==
  /\ Rendered /\ ReportedUnspecified /\ version = <<"v", "1", ".", "1", ".", "0">>
  /\ Cardinality(FrameworkGets) = 1 /\ result = "ok"

\* C16: in createMainVendored the version given to createMainGoFile follows
\* the branch: v0.0.0 (V0 is rendered) with the framework vendored, v1.1.0
\* (V1_1 is rendered) without it, and then only after a successful fetch and
\* a successful checkout.
C16_VendoredVersion ==
  (RanVendoredRoutine /\ (pc = "render" \/ Rendered)) =>
    /\ FrameworkVendored =>
         /\ version = <<"v", "0", ".", "0", ".", "0">>
         /\ \A f \in mainFiles : f.written => f.variant = "V0"
    /\ ~FrameworkVendored =>
         /\ version = <<"v", "1", ".", "1", ".", "0">>
         /\ \A f \in mainFiles : f.written => f.variant = "V1_1"
         /\ \E i \in LegacyFetches, j \in Checkouts : i < j /\ cmds[i].ok /\ cmds[j].ok

C16_Witness ==
  /\ RanVendoredRoutine /\ FrameworkVendored /\ version = <<"v", "0", ".", "0", ".", "0">>
  /\ \E f \in mainFiles : f.written /\ f.variant = "V0"

\* C17: createMainGoFile does not create its destination before the version
\* has parsed: after a parse failure no file exists at the destination.
C17_NoFileOnParseError ==
  err = "ParseError" => \A f \in mainFiles : f.path # mainPath

\* C18: a framework version query that succeeds with nothing but white
\* space is handled as "unspecified": v1.1.0 is required and rendered; the
\* version createMainGoFile gets in the module strategy is never empty.
C18_EmptyVersionIsUnspecified ==
  /\ \A i \in VersionQueries :
       (cmds[i].ok /\ Stripped(cmds[i].stdout, <<>>)) =>
         /\ pc = "m_get" \/ Cardinality(FrameworkGets) = 1
         /\ (pc = "render" \/ Rendered) => version = <<"v", "1", ".", "1", ".", "0">>
  /\ (RanModuleRoutine /\ (pc = "render" \/ Rendered)) => version # <<>>

C18_Witness ==
  /\ result = "ok" /\ version = <<"v", "1", ".", "1", ".", "0">>
  /\ \E i \in VersionQueries : cmds[i].ok /\ cmds[i].stdout = <<"\n">>

\* C19: the web process is registered exactly when the strategy routine
\* returned without error: once in a build that succeeded, after main.go was
\* rendered, and never in one that ended with an error or has not ended.
C19_WebProcessOnSuccess ==
  /\ webProcesses = (IF result = "ok" THEN 1 ELSE 0)
  /\ result = "ok" => (err = "nil" /\ Rendered /\ \E f \in mainFiles : f.written)
  /\ (pc = "done" /\ (err # "nil" \/ \E i \in DOMAIN cmds : ~cmds[i].ok /\ i = Len(cmds))) =>
       webProcesses = 0

C19_Witness ==
  /\ pc = "done" /\ result = "ok" /\ webProcesses = 1
  /\ RanModuleRoutine /\ \E f \in mainFiles : f.written

====
